---- MODULE Spec2Model ----
(***************************************************************************)
(* Model of pizzagami (src/main.py): the in-memory catalog built by Input  *)
(* and the analyses run on it: IngredientCount, Pizzagami,                 *)
(* CountIngredientCommonPizzagami, IngredientsAtOneStore,                  *)
(* ConditionalProbabilityOfIngredients and FeasiblePizzas.                 *)
(*                                                                         *)
(* Stores and ingredients are numbered; the numbering of the ingredients   *)
(* stands for the order of their strings.  Input never compares names, so  *)
(* every listing carries its own name, the number of its line.             *)
(* A probability n / d is kept as the pair <<n, d>>.                       *)
(***************************************************************************)
EXTENDS Integers, Sequences, FiniteSets, TLC

\* Bounds of the model: the stores, the ingredients, the lines read before
\* each analysis (main's ranking needs four to differ, a listing after an
\* ingredient's second store needs three) and the reporting threshold.
NumStores == 2
NumIngr == 2
MaxLines == 2
MaxLinesExclusive == 3
MaxLinesMain == 4
MaxMinPizzas == 2

\* Module-level configuration of the program.
ingr_common_limit == 10
with_duplicates == TRUE

\* Optional[int]: the absent commonness level.
None == -1

Store == 1..NumStores
Ingredient == 1..NumIngr
Pizza == SUBSET Ingredient

VARIABLES
    lines,                        \* the lines read so far: [store, name, pizza]
    stores,                       \* key order of Input.result
    inp_result,                   \* Input.result
    inp_names,                    \* Input.names
    pc,                           \* what the program has run last
    ingr_seen_once,               \* IngredientsAtOneStore.__init__ local
    ingr_seen_more,               \* IngredientsAtOneStore.__init__ local
    excl_result,                  \* IngredientsAtOneStore.result
    counter_keys,                 \* key order of both counters
    counter,                      \* IngredientCount.counter
    counter_with_duplicates,      \* IngredientCount.counter_with_duplicates
    common_ingr,                  \* main: common_ingr
    ranking,                      \* main: the reported ranking
    stores_with_pizza,            \* Pizzagami._stores_with_pizza
    stores_with_pizza_duplicates, \* Pizzagami._stores_with_pizza_duplicates
    pg_result,                    \* Pizzagami.result
    pizza_per_store,              \* Pizzagami._pizza_per_store
    per_level,                    \* CountIngredientCommonPizzagami._per_level
    total,                        \* CountIngredientCommonPizzagami._total
    min_pizzas_to_report,         \* ConditionalProbabilityOfIngredients argument
    cond_result,                  \* ConditionalProbabilityOfIngredients.result
    all_feasible,                 \* FeasiblePizzas.all_feasible
    not_seen,                     \* FeasiblePizzas.not_seen
    coverage                      \* FeasiblePizzas.report: p

inputVars == <<lines, stores, inp_result, inp_names>>
exclVars == <<ingr_seen_once, ingr_seen_more, excl_result>>
countVars == <<counter_keys, counter, counter_with_duplicates>>
mainVars == <<common_ingr, ranking>>
pgVars == <<stores_with_pizza, stores_with_pizza_duplicates, pg_result, pizza_per_store>>
levelVars == <<per_level, total>>
condVars == <<min_pizzas_to_report, cond_result>>
feasVars == <<all_feasible, not_seen, coverage>>
vars == <<inputVars, pc, exclVars, countVars, mainVars, pgVars, levelVars, condVars, feasVars>>

Range(s) == {s[k] : k \in DOMAIN s}
IndexOf(s, x) == CHOOSE k \in DOMAIN s : s[k] = x /\ \A j \in 1..(k - 1) : s[j] # x

\* A defaultdict(list) or a Counter read at a key it may not hold.
Get(d, key, default) == IF key \in DOMAIN d THEN d[key] ELSE default

Init ==
    /\ lines = <<>>
    /\ stores = <<>>
    /\ inp_result = <<>>
    /\ inp_names = <<>>
    /\ pc = "Input"
    /\ ingr_seen_once = <<>>
    /\ ingr_seen_more = {}
    /\ excl_result = <<>>
    /\ counter_keys = <<>>
    /\ counter = <<>>
    /\ counter_with_duplicates = <<>>
    /\ common_ingr = <<>>
    /\ ranking = <<>>
    /\ stores_with_pizza = <<>>
    /\ stores_with_pizza_duplicates = <<>>
    /\ pg_result = <<>>
    /\ pizza_per_store = <<>>
    /\ per_level = <<>>
    /\ total = 0
    /\ min_pizzas_to_report = 0
    /\ cond_result = <<>>
    /\ all_feasible = {}
    /\ not_seen = {}
    /\ coverage = <<0, 1>>

(***************************************************************************)
(* Input                                                                   *)
(***************************************************************************)

\* Input.__init__, the start of one store's file.
OpenStore(store) ==
    /\ pc = "Input"
    /\ store \notin Range(stores)
    /\ stores' = Append(stores, store)
    /\ inp_result' = [s \in DOMAIN inp_result \cup {store} |->
                        IF s = store THEN <<>> ELSE inp_result[s]]
    /\ UNCHANGED <<lines, inp_names, exclVars, countVars, mainVars, pgVars,
                   levelVars, condVars, feasVars, pc>>

\* Input.__init__, one line of the current store's file; a line without
\* ingredients gives the empty pizza.
ReadLine(ingr, limit) ==
    /\ pc = "Input"
    /\ stores # <<>>
    /\ Len(lines) < limit
    /\ LET store == stores[Len(stores)]
           name == Len(lines) + 1
       IN /\ inp_result' = [inp_result EXCEPT ![store] = Append(@, ingr)]
          /\ inp_names' = [key \in DOMAIN inp_names \cup {<<store, ingr>>} |->
                              IF key = <<store, ingr>>
                              THEN Append(Get(inp_names, key, <<>>), name)
                              ELSE inp_names[key]]
          /\ lines' = Append(lines, [store |-> store, name |-> name, pizza |-> ingr])
    /\ UNCHANGED <<stores, exclVars, countVars, mainVars, pgVars, levelVars,
                   condVars, feasVars, pc>>

RECURSIVE iter_from(_)
iter_from(k) ==
    IF k > Len(stores) THEN <<>>
    ELSE [j \in 1..Len(inp_result[stores[k]]) |-> <<stores[k], inp_result[stores[k]][j]>>]
         \o iter_from(k + 1)

\* Input.iter_pizzas, as the sequence it yields.
iter_pizzas == iter_from(1)

all_pizzas == {iter_pizzas[k][2] : k \in DOMAIN iter_pizzas}

all_ingredients == UNION all_pizzas

(***************************************************************************)
(* IngredientsAtOneStore                                                   *)
(***************************************************************************)

\* SeenMore without the test of ingr_seen_more.
SeenMore_forgotten(st, ingr) == FALSE

SeenMore(st, ingr) == ingr \in st.more

SeenElsewhere(st, ingr, store) == ingr \in DOMAIN st.once /\ st.once[ingr] # store

\* The loop body for one (store, pizza); the ingredients of one pizza are
\* distinct, so their updates do not touch each other.
SeeIngredients(st, store, pizza) ==
    LET skip == {i \in pizza : SeenMore(st, i)}
        move == {i \in pizza \ skip : SeenElsewhere(st, i, store)}
        rec == pizza \ (skip \cup move)
    IN [more |-> st.more \cup move,
        once |-> [i \in (DOMAIN st.once \ move) \cup rec |->
                    IF i \in rec THEN store ELSE st.once[i]]]

RECURSIVE SeeAll(_, _)
SeeAll(st, todo) ==
    IF todo = <<>> THEN st
    ELSE SeeAll(SeeIngredients(st, Head(todo)[1], Head(todo)[2]), Tail(todo))

IngredientsAtOneStoreInit ==
    /\ pc = "Input"
    /\ LET st == SeeAll([once |-> <<>>, more |-> {}], iter_pizzas)
       IN /\ ingr_seen_once' = st.once
          /\ ingr_seen_more' = st.more
          /\ excl_result' = [s \in {st.once[i] : i \in DOMAIN st.once} |->
                               {i \in DOMAIN st.once : st.once[i] = s}]
    /\ pc' = "IngredientsAtOneStore"
    /\ UNCHANGED <<inputVars, countVars, mainVars, pgVars, levelVars, condVars, feasVars>>

(***************************************************************************)
(* IngredientCount                                                         *)
(***************************************************************************)

\* What the loop adds to one ingredient's count over the (store, pizza)
\* sequence: 1 a time for the plain counter, len(names) for the other.
RECURSIVE Tally(_, _, _)
Tally(ingr, todo, weighted) ==
    IF todo = <<>> THEN 0
    ELSE (IF ingr \in Head(todo)[2]
          THEN (IF weighted THEN Len(Get(inp_names, Head(todo), <<>>)) ELSE 1)
          ELSE 0)
         + Tally(ingr, Tail(todo), weighted)

FirstSeen(ingr, seq) == CHOOSE k \in DOMAIN seq :
    ingr \in seq[k][2] /\ \A j \in 1..(k - 1) : ingr \notin seq[j][2]

\* The orders in which the counters can come to hold their keys: by first
\* occurrence, and within one pizza in the order the frozenset iterates,
\* which is any.
KeyOrders(seq) ==
    LET seen == UNION {seq[k][2] : k \in DOMAIN seq}
    IN {o \in [1..Cardinality(seen) -> seen] :
          /\ \A a, b \in DOMAIN o : a # b => o[a] # o[b]
          /\ \A a, b \in DOMAIN o : a < b => FirstSeen(o[a], seq) <= FirstSeen(o[b], seq)}

IngredientCountInit ==
    /\ pc = "Input"
    /\ LET seq == iter_pizzas
       IN /\ \E order \in KeyOrders(seq) : counter_keys' = order
          /\ counter' = [i \in UNION {seq[k][2] : k \in DOMAIN seq} |-> Tally(i, seq, FALSE)]
          /\ counter_with_duplicates' =
                [i \in UNION {seq[k][2] : k \in DOMAIN seq} |-> Tally(i, seq, TRUE)]
    /\ pc' = "IngredientCount"
    /\ UNCHANGED <<inputVars, exclVars, mainVars, pgVars, levelVars, condVars, feasVars>>

\* Counter.most_common(n): by descending count, equal counts in key order.
most_common(cnt, n) ==
    LET before(x, y) == \/ cnt[x] > cnt[y]
                        \/ cnt[x] = cnt[y] /\ IndexOf(counter_keys, x) < IndexOf(counter_keys, y)
        rank(x) == 1 + Cardinality({y \in DOMAIN cnt : before(y, x)})
        m == IF n < Cardinality(DOMAIN cnt) THEN n ELSE Cardinality(DOMAIN cnt)
    IN [r \in 1..m |-> LET x == CHOOSE x \in DOMAIN cnt : rank(x) = r IN <<x, cnt[x]>>]

\* IngredientCount.common_ingr
IngredientCount_common_ingr(n, weighted) ==
    LET top == most_common(IF weighted THEN counter_with_duplicates ELSE counter, n)
    IN [r \in DOMAIN top |-> top[r][1]]

\* main: common_ingr = ingr_count.common_ingr(ingr_common_limit)
MainCommonIngr ==
    /\ pc = "IngredientCount"
    /\ common_ingr' = IngredientCount_common_ingr(ingr_common_limit, FALSE)
    /\ pc' = "common_ingr"
    /\ UNCHANGED <<inputVars, exclVars, countVars, ranking, pgVars, levelVars, condVars, feasVars>>

\* main: the "most common ingredients" listing
MainRanking ==
    /\ pc = "Pizzagami"
    /\ ranking' = most_common(IF with_duplicates THEN counter_with_duplicates ELSE counter,
                              ingr_common_limit)
    /\ pc' = "ranking"
    /\ UNCHANGED <<inputVars, exclVars, countVars, common_ingr, pgVars, levelVars, condVars, feasVars>>

(***************************************************************************)
(* Pizzagami                                                               *)
(***************************************************************************)

\* _stores_with_pizza[pizza] after the first loop
RECURSIVE StoresWith(_, _)
StoresWith(pizza, todo) ==
    IF todo = <<>> THEN <<>>
    ELSE (IF Head(todo)[2] = pizza THEN <<Head(todo)[1]>> ELSE <<>>)
         \o StoresWith(pizza, Tail(todo))

\* _stores_with_pizza_duplicates[pizza] after the first loop
RECURSIVE StoresWithDuplicates(_, _)
StoresWithDuplicates(pizza, todo) ==
    IF todo = <<>> THEN <<>>
    ELSE (IF Head(todo)[2] = pizza
          THEN LET ns == Get(inp_names, Head(todo), <<>>)
               IN [j \in DOMAIN ns |-> <<Head(todo)[1], ns[j]>>]
          ELSE <<>>)
         \o StoresWithDuplicates(pizza, Tail(todo))

\* Pizzagami.count
count(pizza, weighted) ==
    Len(Get(IF weighted THEN stores_with_pizza_duplicates ELSE stores_with_pizza,
            pizza, <<>>))

\* Pizzagami.is_pizzagami
is_pizzagami(pizza) == count(pizza, TRUE) = 1

is_ingr_common(pizza, common) == \A i \in pizza : i \in Range(common)

\* max() of no index raises ValueError.
MaxRaises(pizza, common) == is_ingr_common(pizza, common) /\ pizza = {}

ingr_common_level(pizza, common) ==
    IF is_ingr_common(pizza, common)
    THEN LET idx == {IndexOf(common, i) - 1 : i \in pizza}
         IN CHOOSE m \in idx : \A n \in idx : n <= m
    ELSE None

\* The entries the second loop appends for one store's pizzas.
RECURSIVE PizzagamiEntries(_, _)
PizzagamiEntries(pizzas, common) ==
    IF pizzas = <<>> THEN <<>>
    ELSE (IF is_pizzagami(Head(pizzas))
          THEN <<<<Head(pizzas), ingr_common_level(Head(pizzas), common)>>>>
          ELSE <<>>)
         \o PizzagamiEntries(Tail(pizzas), common)

\* Pizzagami.__init__; an exception leaves main without a Pizzagami.
PizzagamiInit ==
    /\ pc = "common_ingr"
    /\ UNCHANGED <<inputVars, exclVars, countVars, mainVars, levelVars, condVars, feasVars>>
    /\ stores_with_pizza' = [p \in all_pizzas |-> StoresWith(p, iter_pizzas)]
    /\ stores_with_pizza_duplicates' =
          [p \in all_pizzas |-> StoresWithDuplicates(p, iter_pizzas)]
    /\ IF \E p \in all_pizzas : is_pizzagami(p)' /\ MaxRaises(p, common_ingr)
       THEN /\ pc' = "ValueError"
            /\ UNCHANGED <<pg_result, pizza_per_store>>
       ELSE /\ pg_result' = [s \in Range(stores) |->
                               PizzagamiEntries(inp_result[s], common_ingr)']
            /\ pizza_per_store' = [s \in Range(stores) |-> Len(inp_result[s])]
            /\ pc' = "Pizzagami"

(***************************************************************************)
(* CountIngredientCommonPizzagami                                          *)
(***************************************************************************)

RECURSIVE SumValues(_, _)
SumValues(f, keys) ==
    IF keys = {} THEN 0
    ELSE LET k == CHOOSE k \in keys : TRUE IN f[k] + SumValues(f, keys \ {k})

\* The levels the loop tallies, one for each entry that has one.
TalliedEntries ==
    {pos \in UNION {{<<s, k>> : k \in DOMAIN pg_result[s]} : s \in DOMAIN pg_result} :
        pg_result[pos[1]][pos[2]][2] # None}

\* CountIngredientCommonPizzagami.__init__; a level that is no key of
\* _per_level raises KeyError.
CountIngredientCommonPizzagamiInit ==
    /\ pc = "ranking"
    /\ LET fresh == [i \in 1..ingr_common_limit |-> 0]
           level(pos) == pg_result[pos[1]][pos[2]][2]
       IN IF \E pos \in TalliedEntries : level(pos) \notin DOMAIN fresh
          THEN /\ pc' = "KeyError"
               /\ UNCHANGED levelVars
          ELSE /\ per_level' = [i \in DOMAIN fresh |->
                                  fresh[i] + Cardinality({pos \in TalliedEntries : level(pos) = i})]
               /\ total' = SumValues(per_level', DOMAIN fresh)
               /\ pc' = "CountIngredientCommonPizzagami"
    /\ UNCHANGED <<inputVars, exclVars, countVars, mainVars, pgVars, condVars, feasVars>>

Next ==
    \/ \E store \in Store : OpenStore(store)
    \/ \E ingr \in Pizza : ReadLine(ingr, MaxLinesMain)
    \/ IngredientCountInit
    \/ MainCommonIngr
    \/ PizzagamiInit
    \/ MainRanking
    \/ CountIngredientCommonPizzagamiInit

Spec == Init /\ [][Next]_vars

(***************************************************************************)
(* ConditionalProbabilityOfIngredients                                     *)
(***************************************************************************)

\* pizzas_with[ingr]: the distinct pizzas that hold ingr
pizzas_with(ingr) == {p \in all_pizzas : ingr \in p}

\* Reported with the threshold one too high.
Reported_above(ingr, min) ==
    /\ {p \in all_pizzas : ingr \in p} # {}
    /\ ~(Cardinality({p \in all_pizzas : ingr \in p}) <= min)

\* the threshold test of the loop over pizzas_with
Reported(ingr, min) ==
    /\ pizzas_with(ingr) # {}
    /\ ~(Cardinality(pizzas_with(ingr)) < min)

other_ingr(ingr) == UNION pizzas_with(ingr) \ {ingr}

\* the tuple appended for ingr and ingr2
CondEntry(ingr, ingr2) ==
    LET pizzas == pizzas_with(ingr)
        n == Cardinality({p \in pizzas : ingr2 \in p})
    IN <<<<n, Cardinality(pizzas)>>, <<ingr, Cardinality(pizzas)>>, <<ingr2, n>>>>

CondEntries(min) ==
    {CondEntry(pr[1], pr[2]) :
        pr \in {q \in Ingredient \X Ingredient : Reported(q[1], min) /\ q[2] \in other_ingr(q[1])}}

\* Comparison of two of the tuples: the probabilities as numbers, then the
\* other fields in order.
ProbLess(x, y) == x[1] * y[2] < y[1] * x[2]
ProbEqual(x, y) == x[1] * y[2] = y[1] * x[2]
PairLess(x, y) == x[1] < y[1] \/ (x[1] = y[1] /\ x[2] < y[2])
TupleLess(e, f) ==
    \/ ProbLess(e[1], f[1])
    \/ /\ ProbEqual(e[1], f[1])
       /\ \/ PairLess(e[2], f[2])
          \/ e[2] = f[2] /\ PairLess(e[3], f[3])

\* list.sort(reverse=True)
RECURSIVE SortReverse(_)
SortReverse(S) ==
    IF S = {} THEN <<>>
    ELSE LET top == CHOOSE e \in S : \A f \in S : ~TupleLess(e, f)
         IN <<top>> \o SortReverse(S \ {top})

ConditionalProbabilityOfIngredientsInit(min) ==
    /\ pc = "Input"
    /\ min_pizzas_to_report' = min
    /\ cond_result' = SortReverse(CondEntries(min))
    /\ pc' = "ConditionalProbabilityOfIngredients"
    /\ UNCHANGED <<inputVars, exclVars, countVars, mainVars, pgVars, levelVars, feasVars>>

NextCond ==
    \/ \E store \in Store : OpenStore(store)
    \/ \E ingr \in Pizza : ReadLine(ingr, MaxLines)
    \/ \E min \in 0..MaxMinPizzas : ConditionalProbabilityOfIngredientsInit(min)

SpecCond == Init /\ [][NextCond]_vars

(***************************************************************************)
(* FeasiblePizzas                                                          *)
(***************************************************************************)

\* all_below without the guard of the empty pizza.
RECURSIVE all_below_unguarded(_)
all_below_unguarded(pizza) ==
    {pizza} \cup UNION {all_below_unguarded(pizza \ {i}) : i \in pizza}

\* FeasiblePizzas._all_below; the cache returns what the call would compute,
\* no caller changes a returned set.
RECURSIVE all_below(_)
all_below(pizza) ==
    IF pizza = {} THEN {}
    ELSE {pizza} \cup UNION {all_below(pizza \ {i}) : i \in pizza}

FeasiblePizzasInit ==
    /\ pc = "Input"
    /\ all_feasible' = UNION {all_below(iter_pizzas[k][2]) : k \in DOMAIN iter_pizzas}
    /\ not_seen' = all_feasible' \ all_pizzas
    /\ pc' = "FeasiblePizzas"
    /\ UNCHANGED <<inputVars, exclVars, countVars, mainVars, pgVars, levelVars, condVars, coverage>>

\* FeasiblePizzas.report: p = 100 * (1 - |not_seen| / |all_feasible|), kept
\* as the fraction <<100 * (|all_feasible| - |not_seen|), |all_feasible|>>.
FeasiblePizzasReport ==
    /\ pc = "FeasiblePizzas"
    /\ IF Cardinality(all_feasible) = 0
       THEN /\ pc' = "ZeroDivisionError"
            /\ UNCHANGED coverage
       ELSE /\ coverage' = <<100 * (Cardinality(all_feasible) - Cardinality(not_seen)),
                             Cardinality(all_feasible)>>
            /\ pc' = "FeasiblePizzas.report"
    /\ UNCHANGED <<inputVars, exclVars, countVars, mainVars, pgVars, levelVars, condVars,
                   all_feasible, not_seen>>

NextFeasible ==
    \/ \E store \in Store : OpenStore(store)
    \/ \E ingr \in Pizza : ReadLine(ingr, MaxLines)
    \/ FeasiblePizzasInit
    \/ FeasiblePizzasReport

SpecFeasible == Init /\ [][NextFeasible]_vars

NextExclusive ==
    \/ \E store \in Store : OpenStore(store)
    \/ \E ingr \in Pizza : ReadLine(ingr, MaxLinesExclusive)
    \/ IngredientsAtOneStoreInit

SpecExclusive == Init /\ [][NextExclusive]_vars

(***************************************************************************)
(* What the catalog holds, read off the lines themselves                   *)
(***************************************************************************)

ListingsOf(p) == {k \in DOMAIN lines : lines[k].pizza = p}
ObservedPizzas == {lines[k].pizza : k \in DOMAIN lines}
ListedAt(s) == {lines[k].pizza : k \in {j \in DOMAIN lines : lines[j].store = s}}
StoresListing(x) == {lines[k].store : k \in {j \in DOMAIN lines : x \in lines[j].pizza}}
StorePizzaPairs(x) ==
    {<<lines[k].store, lines[k].pizza>> : k \in {j \in DOMAIN lines : x \in lines[j].pizza}}
NamesListed(pair) ==
    Cardinality({k \in DOMAIN lines : lines[k].store = pair[1] /\ lines[k].pizza = pair[2]})
IdentitiesWith(a) == {p \in ObservedPizzas : a \in p}

PizzagamiRan ==
    pc \in {"Pizzagami", "ValueError", "ranking", "CountIngredientCommonPizzagami", "KeyError"}
PizzagamiBuilt ==
    pc \in {"Pizzagami", "ranking", "CountIngredientCommonPizzagami", "KeyError"}
FeasibleBuilt == pc \in {"FeasiblePizzas", "FeasiblePizzas.report", "ZeroDivisionError"}

(***************************************************************************)
(* The claims                                                              *)
(***************************************************************************)

\* C1: Pizzagami is constructed on every catalog; is_pizzagami(p) is then
\* true exactly of the identities that one listing in the whole catalog
\* carries, and each store's result holds exactly the pizzagami identities
\* listed at that store.
C1_PizzagamiIffOneListing ==
    PizzagamiRan =>
        /\ PizzagamiBuilt
        /\ \A p \in ObservedPizzas : is_pizzagami(p) <=> Cardinality(ListingsOf(p)) = 1
        /\ \A s \in Range(stores) :
              /\ s \in DOMAIN pg_result
              /\ {e[1] : e \in Range(pg_result[s])} =
                    {p \in ListedAt(s) : Cardinality(ListingsOf(p)) = 1}

\* C2: count(p, with_duplicates=True) is the number of listings in the whole
\* catalog that carry p.
C2_CountIsListings ==
    PizzagamiBuilt => \A p \in Pizza : count(p, TRUE) = Cardinality(ListingsOf(p))

\* C3: the plain counter of x is the number of distinct (store, identity)
\* pairs whose identity holds x, the duplicate-weighted counter the sum over
\* those pairs of the number of names listed for the pair.
C3_IngredientCounters ==
    pc = "IngredientCount" =>
        \A x \in Ingredient :
            /\ Get(counter, x, 0) = Cardinality(StorePizzaPairs(x))
            /\ Get(counter_with_duplicates, x, 0) =
                  SumValues([pair \in StorePizzaPairs(x) |-> NamesListed(pair)],
                            StorePizzaPairs(x))

\* C4: IngredientsAtOneStore.result gives store s the ingredient x exactly
\* when x is listed at s and at no other store; no ingredient is exclusive
\* to two stores, and an ingredient seen at two distinct stores is held as
\* seen more whatever is listed after.
C4_ExclusiveIngredients ==
    pc = "IngredientsAtOneStore" =>
        /\ \A s \in Store, x \in Ingredient :
              (s \in DOMAIN excl_result /\ x \in excl_result[s]) <=> StoresListing(x) = {s}
        /\ \A s1, s2 \in DOMAIN excl_result :
              s1 # s2 => excl_result[s1] \cap excl_result[s2] = {}
        /\ \A x \in Ingredient :
              Cardinality(StoresListing(x)) >= 2 =>
                  x \in ingr_seen_more /\ x \notin DOMAIN ingr_seen_once

\* C4 witness: an ingredient listed at one store, then at another, then
\* once more, next to an ingredient that one store alone lists.
C4_Witness ==
    /\ pc = "IngredientsAtOneStore"
    /\ \E x \in Ingredient : \E k1, k2, k3 \in DOMAIN lines :
          /\ k1 < k2 /\ k2 < k3
          /\ x \in lines[k1].pizza /\ x \in lines[k2].pizza /\ x \in lines[k3].pizza
          /\ lines[k1].store # lines[k2].store
    /\ \E s \in DOMAIN excl_result : excl_result[s] # {}

C6_ConditionalProbability ==
    pc = "ConditionalProbabilityOfIngredients" =>
        /\ \A a, b \in Ingredient :
              (\E k \in DOMAIN cond_result :
                  cond_result[k][2][1] = a /\ cond_result[k][3][1] = b)
              <=> /\ a # b
                  /\ Cardinality(IdentitiesWith(a)) >= min_pizzas_to_report
                  /\ \E p \in IdentitiesWith(a) : b \in p
        /\ \A k \in DOMAIN cond_result :
              LET a == cond_result[k][2][1]
                  b == cond_result[k][3][1]
                  prob == cond_result[k][1]
              IN /\ prob = <<Cardinality({p \in IdentitiesWith(a) : b \in p}),
                             Cardinality(IdentitiesWith(a))>>
                 /\ 0 < prob[1] /\ prob[1] <= prob[2]
        /\ \A j, k \in DOMAIN cond_result :
              /\ j < k => cond_result[j][1][1] * cond_result[k][1][2]
                            >= cond_result[k][1][1] * cond_result[j][1][2]
              /\ j # k => <<cond_result[j][2][1], cond_result[j][3][1]>>
                            # <<cond_result[k][2][1], cond_result[k][3][1]>>

\* C6 witness: an ingredient under the threshold, and a reported
\* probability below 1 for an ingredient that reaches it.
C6_Witness ==
    /\ pc = "ConditionalProbabilityOfIngredients"
    /\ min_pizzas_to_report >= 2
    /\ \E a \in Ingredient :
          IdentitiesWith(a) # {} /\ Cardinality(IdentitiesWith(a)) < min_pizzas_to_report
    /\ \E k \in DOMAIN cond_result : cond_result[k][1][1] < cond_result[k][1][2]

\* C7: a pizza without ingredients that one listing carries is a pizzagami
\* entry of its store once Pizzagami has been constructed, and the
\* construction raises nothing.
C7_EmptyPizzaHandled ==
    (PizzagamiRan /\ Cardinality(ListingsOf({})) = 1) =>
        /\ PizzagamiBuilt
        /\ \E s \in DOMAIN pg_result :
              /\ {} \in ListedAt(s)
              /\ \E e \in Range(pg_result[s]) : e[1] = {}

C9_SameRanking ==
    pc \in {"ranking", "CountIngredientCommonPizzagami", "KeyError"} =>
        /\ common_ingr = IngredientCount_common_ingr(ingr_common_limit, TRUE)
        /\ common_ingr = [r \in DOMAIN ranking |-> ranking[r][1]]

\* C10: every level stored in Pizzagami.result that is not None is a key of
\* _per_level, CountIngredientCommonPizzagami is constructed without an
\* exception and its total is the number of entries whose level is not None.
C10_LevelsTallied ==
    /\ PizzagamiBuilt =>
          \A s \in DOMAIN pg_result : \A e \in Range(pg_result[s]) :
              e[2] # None => e[2] \in 1..ingr_common_limit
    /\ pc # "KeyError"
    /\ pc = "CountIngredientCommonPizzagami" =>
          total = Cardinality({pos \in UNION {{<<s, k>> : k \in DOMAIN pg_result[s]} :
                                                 s \in DOMAIN pg_result} :
                                  pg_result[pos[1]][pos[2]][2] # None})

====
